---- MODULE Spec2Model ----
(***************************************************************************)
(* smart-runner: an interactive terminal picker.  The model covers the     *)
(* keyword -> commands index (command.rs, main.rs Runner::new), the        *)
(* suggestion engine (suggestion.rs Suggestion::from_input), the editor    *)
(* state (Screen) and the keystroke controller (main.rs Runner).           *)
(*                                                                         *)
(* Strings are sequences of one-character strings, so that prefixes and    *)
(* the lexicographic order of String::cmp can be computed.                 *)
(***************************************************************************)
EXTENDS Integers, Sequences, FiniteSets, TLC

VARIABLES
    commands,     \* Runner.commands / Commands.commands : Vec<Rc<Command>>
    kwd2cmd,      \* Runner.kwd2cmd / Commands.kwd2cmd, in its iteration order
    screen,       \* Runner.screen : Screen
    pc,           \* position of Runner::run
    key,          \* the key the current loop iteration consumed, or None
    outcome,      \* InputLoopAction of the key being handled, or None
    result,       \* how run() ended, or None while it runs
    cleaned,      \* whether Runner::cleanup has been called
    stdout,       \* the lines main() printed on standard output
    sg_input,     \* Suggestion::from_input argument `input`
    sg_validated, \* Suggestion::from_input argument `validated_keywords`
    suggestion,   \* value returned by Suggestion::from_input, or None
    script,       \* the keys stdin will still deliver when they are given, or None
    tp_cmd,       \* Placeholders::parse argument `cmd`
    tp_values,    \* Placeholders::interpolate argument `values`
    placeholders, \* value returned by Placeholders::parse, or None
    interpolated  \* value returned by Placeholders::interpolate, or None

vars == <<commands, kwd2cmd, screen, pc, key, outcome, result, cleaned, stdout,
          sg_input, sg_validated, suggestion, script,
          tp_cmd, tp_values, placeholders, interpolated>>

----------------------------------------------------------------------------
(* Bounds of the model. *)

MaxCmds == 2        \* longest command list given to Commands::new
MaxInput == 2       \* longest `input` given to Suggestion::from_input
MaxLine == 2        \* longest input buffer (Screen.current_line)
MaxValidated == 1   \* longest Screen.validated_keywords

----------------------------------------------------------------------------
(* Strings. *)

\* The characters of the model, in increasing code point order.
Ascii == <<"\t", "\n", " ", "'", "*", "-", ".", "/",
           "a", "b", "c", "d", "e", "h", "i", "l", "n", "o", "q", "r", "s", "t",
           "u", "v", "w", "x", "{", "}">>

Code(c) == CHOOSE i \in 1..Len(Ascii) : Ascii[i] = c

Min(a, b) == IF a <= b THEN a ELSE b

\* Option<T>
None == <<>>
Some(x) == <<x>>

\* str::starts_with
starts_with(s, prefix) ==
    /\ Len(prefix) <= Len(s)
    /\ SubSeq(s, 1, Len(prefix)) = prefix

\* String::cmp(a, b) = Less : lexicographic order by code point
str_lt(a, b) ==
    \/ /\ Len(a) < Len(b)
       /\ SubSeq(b, 1, Len(a)) = a
    \/ \E i \in 1..Min(Len(a), Len(b)) :
          /\ SubSeq(a, 1, i - 1) = SubSeq(b, 1, i - 1)
          /\ Code(a[i]) < Code(b[i])

str_le(a, b) == a = b \/ str_lt(a, b)

Range(s) == {s[i] : i \in 1..Len(s)}

\* Vec::contains
contains(vec, x) == \E i \in 1..Len(vec) : vec[i] = x

\* The orders in which a HashSet / HashMap of the elements S may be iterated.
IterationOrders(S) ==
    {p \in [1..Cardinality(S) -> S] : \A x \in S : \E i \in 1..Cardinality(S) : p[i] = x}

\* All sequences over S of length at most n.
SeqsUpTo(S, n) == UNION {[1..k -> S] : k \in 0..n}

----------------------------------------------------------------------------
(* Commands and the catalog (command.rs, main.rs). *)

\* struct Command { cmd, description, keywords }; cmd is the template text
Command(cmd, description, keywords) ==
    [cmd |-> cmd, description |-> description, keywords |-> keywords]

\* The commands catalogs are built from.  cmd_ls has two keywords with a
\* common prefix, cmd_du repeats a keyword, cmd_ls_l has the text of cmd_ls.
cmd_ls == Command(<<"l", "s">>, "list", << <<"a">>, <<"a", "b">> >>)
cmd_cat == Command(<<"c", "a", "t">>, "print", << <<"a", "b">>, <<"b">> >>)
cmd_du == Command(<<"d", "u">>, "size", << <<"b">>, <<"b">> >>)
cmd_ls_l == Command(<<"l", "s">>, "long list", << <<"b">>, <<"a">>, <<"a", "b">> >>)

CommandPool == {cmd_ls, cmd_cat, cmd_du, cmd_ls_l}

\* impl Ord for Command: by the template's original text
cmd_cmp_le(c1, c2) == str_le(c1.cmd, c2.cmd)

\* (variant of entry_insert: the entry is replaced instead of extended)
entry_insert_overwrite(index, kw, cmd) ==
    IF kw \in DOMAIN index
    THEN [index EXCEPT ![kw] = {cmd}]
    ELSE index @@ (kw :> {cmd})

\* kwd2cmd.entry(kw).or_insert(HashSet::new()).insert(cmd)
entry_insert(index, kw, cmd) ==
    IF kw \in DOMAIN index
    THEN [index EXCEPT ![kw] = @ \cup {cmd}]
    ELSE index @@ (kw :> {cmd})

\* for kw in &cmd.keywords { ... }
RECURSIVE index_keywords(_, _, _)
index_keywords(index, cmd, kws) ==
    IF kws = <<>> THEN index
    ELSE index_keywords(entry_insert(index, Head(kws), cmd), cmd, Tail(kws))

\* for cmd in &commands { ... }
RECURSIVE index_commands(_, _)
index_commands(index, cmds) ==
    IF cmds = <<>> THEN index
    ELSE index_commands(index_keywords(index, Head(cmds), Head(cmds).keywords),
                        Tail(cmds))

EmptyMap == [k \in {} |-> {}]

\* Commands::new_rc / Runner::new: the possible kwd2cmd maps, each a sequence
\* of entries [kw, cmds] in the order the HashMap iterates them.
new_rc(vec_commands) ==
    LET index == index_commands(EmptyMap, vec_commands)
    IN  {[i \in 1..Len(order) |-> [kw |-> order[i], cmds |-> index[order[i]]]] :
            order \in IterationOrders(DOMAIN index)}

\* HashMap::contains_key
contains_key(map, kw) == \E i \in 1..Len(map) : map[i].kw = kw

----------------------------------------------------------------------------
(* The suggestion engine (suggestion.rs). *)

Suggestion(keywords, cmds) == [keywords |-> keywords, commands |-> cmds]

\* (variant of validated_commands: `any` instead of `all`)
validated_commands_any(cmds, validated_keywords) ==
    IF validated_keywords = {}
    THEN Range(cmds)
    ELSE {cmd \in Range(cmds) :
            \E kw \in validated_keywords : contains(cmd.keywords, kw)}

\* suggestion.rs:20-27, main.rs:166-173
validated_commands(cmds, validated_keywords) ==
    IF validated_keywords = {}
    THEN Range(cmds)
    ELSE {cmd \in Range(cmds) :
            \A kw \in validated_keywords : contains(cmd.keywords, kw)}

\* (variant of kw_matches: validated keywords are suggested again)
kw_matches_ignoring_validated(kw, input, validated_keywords) ==
    starts_with(kw, input)

\* the condition of suggestion.rs:33-34, main.rs:179-180
kw_matches(kw, input, validated_keywords) ==
    /\ starts_with(kw, input)
    /\ kw \notin validated_keywords

\* The loop `for (kw, cmds) in &kwd2cmd` of suggestion.rs:32-39 and
\* main.rs:178-185 over the entries map[1..n]: the possible values of
\* (keywords, commands) after it.  cmds.intersection(..) yields its elements
\* in an unspecified order.
RECURSIVE scan_kwd2cmd(_, _, _, _, _)
scan_kwd2cmd(map, n, input, validated_keywords, valid_cmds) ==
    IF n = 0 THEN {Suggestion(<<>>, <<>>)}
    ELSE LET before == scan_kwd2cmd(map, n - 1, input, validated_keywords, valid_cmds)
             e == map[n]
         IN  IF kw_matches(e.kw, input, validated_keywords)
             THEN {Suggestion(Append(s.keywords, e.kw), s.commands \o p) :
                      s \in before,
                      p \in IterationOrders(e.cmds \cap valid_cmds)}
             ELSE before

\* (variant of eligible: an empty input is scanned like any other prefix)
eligible_always_scan(cmds, map, input, validated_keywords) ==
    scan_kwd2cmd(map, Len(map), input, validated_keywords,
                 validated_commands(cmds, validated_keywords))

\* (variant of eligible: the input is not used to narrow the commands)
eligible_ignoring_input(cmds, map, input, validated_keywords) ==
    {Suggestion(s.keywords, p) :
        s \in scan_kwd2cmd(map, Len(map), input, validated_keywords,
                           validated_commands(cmds, validated_keywords)),
        p \in IterationOrders(validated_commands(cmds, validated_keywords))}

\* Before the sort: suggestion.rs:29-40, main.rs:175-186
eligible(cmds, map, input, validated_keywords) ==
    LET valid_cmds == validated_commands(cmds, validated_keywords)
    IN  IF input = <<>>
        THEN {Suggestion(<<>>, p) : p \in IterationOrders(valid_cmds)}
        ELSE scan_kwd2cmd(map, Len(map), input, validated_keywords, valid_cmds)

\* Insert x after the last element that is not greater: keeps the sort stable.
RECURSIVE sorted_insert(_, _)
sorted_insert(sorted, x) ==
    IF sorted = <<>> THEN <<x>>
    ELSE IF cmd_cmp_le(sorted[Len(sorted)], x)
         THEN Append(sorted, x)
         ELSE Append(sorted_insert(SubSeq(sorted, 1, Len(sorted) - 1), x),
                     sorted[Len(sorted)])

\* (variant of sort_by: the list is left as it is)
sort_by_identity(cmds) == cmds

\* Vec::sort_by(|c1, c2| c1.cmd.cmp(&c2.cmd)), a stable sort

RECURSIVE sort_by(_)
sort_by(cmds) ==
    IF cmds = <<>> THEN <<>>
    ELSE sorted_insert(sort_by(SubSeq(cmds, 1, Len(cmds) - 1)), cmds[Len(cmds)])

\* Suggestion::from_input: the set of values it may return
from_input(cmds, map, input, validated_keywords) ==
    {Suggestion(s.keywords, sort_by(s.commands)) :
        s \in eligible(cmds, map, input, validated_keywords)}

----------------------------------------------------------------------------
(* The editor state (main.rs struct Screen; screen.rs has the same methods). *)

\* enum ValidatedKeyword
Valid(kw) == <<"Valid", kw>>
Invalid(kw) == <<"Invalid", kw>>

\* (variant of Screen_new: the command list starts with a command, selected)
Screen_new_with_command ==
    [current_line |-> <<>>,
     validated_keywords |-> <<>>,
     auto_complete |-> <<>>,
     selected_auto_complete_index |-> None,
     selected_command_index |-> Some(0),
     commands |-> <<cmd_cat>>]

\* Screen::new, without the fields used for drawing only (x, y, prompt, term_size)
Screen_new ==
    [current_line |-> <<>>,
     validated_keywords |-> <<>>,
     auto_complete |-> <<>>,
     selected_auto_complete_index |-> None,
     selected_command_index |-> None,
     commands |-> <<>>]

\* Vec::get with a 0-based index
get(vec, idx) == IF idx < Len(vec) THEN Some(vec[idx + 1]) ELSE None

\* Vec::pop
pop(vec) == IF vec = <<>> THEN <<>> ELSE SubSeq(vec, 1, Len(vec) - 1)

\* (variant of complete: the input is cleared, the keyword is not pushed)
complete_without_push(self) ==
    IF self.selected_auto_complete_index # None
    THEN [self EXCEPT !.current_line = <<>>]
    ELSE self

\* Screen::complete; get(idx).unwrap() panics on None
complete(self) ==
    IF self.selected_auto_complete_index # None
    THEN LET idx == self.selected_auto_complete_index[1]
         IN  [self EXCEPT
                 !.validated_keywords = Append(@, Valid(get(self.auto_complete, idx)[1])),
                 !.current_line = <<>>]
    ELSE self

\* Screen::add_validated_keyword
add_validated_keyword(self, vkw) ==
    [self EXCEPT !.validated_keywords = Append(@, vkw)]

\* (variant of selected_command: the first command whatever the index)
selected_command_first(self) ==
    IF self.selected_command_index = None THEN None
    ELSE get(self.commands, 0)

\* Screen::selected_command
selected_command(self) ==
    IF self.selected_command_index = None THEN None
    ELSE get(self.commands, self.selected_command_index[1])

\* Screen::next_suggestion
next_suggestion(self) ==
    IF self.selected_auto_complete_index # None
    THEN [self EXCEPT !.selected_auto_complete_index =
             Some((@[1] + 1) % Len(self.auto_complete))]
    ELSE self

\* Screen::previous_suggestion
previous_suggestion(self) ==
    IF self.selected_auto_complete_index # None
    THEN [self EXCEPT !.selected_auto_complete_index =
             Some(IF @[1] = 0 THEN Len(self.auto_complete) - 1 ELSE @[1] - 1)]
    ELSE self

\* (variant of next_command: the index is not taken modulo the length)
next_command_unwrapped(self) ==
    IF self.selected_command_index # None
    THEN [self EXCEPT !.selected_command_index = Some(@[1] + 1)]
    ELSE self

\* Screen::next_command
next_command(self) ==
    IF self.selected_command_index # None
    THEN [self EXCEPT !.selected_command_index =
             Some((@[1] + 1) % Len(self.commands))]
    ELSE self

\* (variant of previous_command: the index stays at 0 instead of wrapping)
previous_command_saturating(self) ==
    IF self.selected_command_index # None
    THEN [self EXCEPT !.selected_command_index =
             Some(IF @[1] = 0 THEN 0 ELSE @[1] - 1)]
    ELSE self

\* Screen::previous_command
previous_command(self) ==
    IF self.selected_command_index # None
    THEN [self EXCEPT !.selected_command_index =
             Some(IF @[1] = 0 THEN Len(self.commands) - 1 ELSE @[1] - 1)]
    ELSE self

\* (variant of set_auto_complete: the index is set without looking at the list)
set_auto_complete_unchecked(self, keywords) ==
    [self EXCEPT !.auto_complete = keywords,
                 !.selected_auto_complete_index = Some(0)]

\* Screen::set_auto_complete
set_auto_complete(self, keywords) ==
    [self EXCEPT !.auto_complete = keywords,
                 !.selected_auto_complete_index =
                     IF keywords = <<>> THEN None ELSE Some(0)]

\* (variant of set_commands: an index that still fits the new list is kept)
set_commands_keep_index(self, cmds) ==
    [self EXCEPT !.commands = cmds,
                 !.selected_command_index =
                     IF cmds = <<>> THEN None
                     ELSE IF @ # None /\ @[1] < Len(cmds) THEN @
                     ELSE Some(0)]

\* Screen::set_commands
set_commands(self, cmds) ==
    [self EXCEPT !.commands = cmds,
                 !.selected_command_index =
                     IF cmds = <<>> THEN None ELSE Some(0)]

\* Screen::set_suggestion (screen.rs)
set_suggestion(self, s) ==
    set_auto_complete(set_commands(self, s.commands), s.keywords)

\* Screen::input
input(self) == self.current_line

\* Screen::reset_input: <<the previous input, the screen after>>
reset_input(self) == <<self.current_line, [self EXCEPT !.current_line = <<>>]>>

\* Screen::add
add(self, c) == [self EXCEPT !.current_line = Append(@, c)]

\* (variant of remove_last_char: a non-empty input line is emptied)
remove_last_char_clears(self) ==
    IF self.current_line = <<>>
    THEN [self EXCEPT !.validated_keywords = pop(@)]
    ELSE [self EXCEPT !.current_line = <<>>]

\* Screen::remove_last_char
remove_last_char(self) ==
    IF self.current_line = <<>>
    THEN [self EXCEPT !.validated_keywords = pop(@)]
    ELSE [self EXCEPT !.current_line = pop(@)]

----------------------------------------------------------------------------
(* The controller (main.rs impl Runner).  A method that changes the screen *)
(* is the set of screens it may leave: the order in which a HashSet is     *)
(* iterated is not determined.                                             *)

\* enum InputLoopAction
Continue == <<"Continue">>
Cancel == <<"Cancel">>
Success(cmd) == <<"Success", cmd>>

\* termion::event::Key
Char(c) == <<"Char", c>>
Backspace == <<"Backspace">>
Right == <<"Right">>
Left == <<"Left">>
Up == <<"Up">>
Down == <<"Down">>
Esc == <<"Esc">>

\* (variant of valid_keyword_set: Invalid entries are kept too)
valid_keyword_set_all(validated) ==
    {validated[i][2] : i \in 1..Len(validated)}

\* main.rs:160-164: the strings of the Valid entries
valid_keyword_set(validated) ==
    {validated[i][2] : i \in {j \in 1..Len(validated) : validated[j][1] = "Valid"}}

\* Runner::filter_commands
filter_commands(self) ==
    {set_auto_complete(set_commands(self.screen, s.commands), s.keywords) :
        s \in eligible(self.commands, self.kwd2cmd, input(self.screen),
                       valid_keyword_set(self.screen.validated_keywords))}

\* (variant of auto_complete: the suggestion is not recomputed)
auto_complete_no_filter(self) ==
    {complete(self.screen)}

\* Runner::auto_complete
auto_complete(self) ==
    filter_commands([self EXCEPT !.screen = complete(self.screen)])

\* Runner::add_key
add_key(self, c) ==
    filter_commands([self EXCEPT !.screen = add(self.screen, c)])

\* Runner::remove_last_char
Runner_remove_last_char(self) ==
    filter_commands([self EXCEPT !.screen = remove_last_char(self.screen)])

\* (variant of validate_keyword: the input is not looked up in kwd2cmd)
validate_keyword_unchecked(self) ==
    LET taken == reset_input(self.screen)
    IN  {add_validated_keyword(taken[2], Valid(taken[1]))}

\* Runner::validate_keyword
validate_keyword(self) ==
    LET taken == reset_input(self.screen)
        validated_kw == IF contains_key(self.kwd2cmd, taken[1])
                        THEN Valid(taken[1])
                        ELSE Invalid(taken[1])
    IN  {add_validated_keyword(taken[2], validated_kw)}

\* (variant of process_key: the space is handled as a printable character)
process_key_space_printable(self, k) ==
    LET cont(screens) == {<<Continue, s>> : s \in screens}
    IN  IF k = Char("q") THEN {<<Cancel, self.screen>>}
        ELSE IF k = Char("\n")
             THEN IF selected_command(self.screen) # None
                  THEN {<<Success(selected_command(self.screen)[1].cmd), self.screen>>}
                  ELSE {<<Continue, self.screen>>}
        ELSE IF k = Char("\t") THEN cont(auto_complete(self))
        ELSE IF k[1] = "Char" THEN cont(add_key(self, k[2]))
        ELSE IF k = Backspace THEN cont(Runner_remove_last_char(self))
        ELSE IF k = Right THEN cont({next_suggestion(self.screen)})
        ELSE IF k = Left THEN cont({previous_suggestion(self.screen)})
        ELSE IF k = Up THEN cont({previous_command(self.screen)})
        ELSE IF k = Down THEN cont({next_command(self.screen)})
        ELSE cont({self.screen})

\* Runner::process_key: the possible <<InputLoopAction, screen after>>
process_key(self, k) ==
    LET cont(screens) == {<<Continue, s>> : s \in screens}
    IN  IF k = Char("q") THEN {<<Cancel, self.screen>>}
        ELSE IF k = Char("\n")
             THEN IF selected_command(self.screen) # None
                  THEN {<<Success(selected_command(self.screen)[1].cmd), self.screen>>}
                  ELSE {<<Continue, self.screen>>}
        ELSE IF k = Char("\t") THEN cont(auto_complete(self))
        ELSE IF k = Char(" ") THEN cont(validate_keyword(self))
        ELSE IF k[1] = "Char" THEN cont(add_key(self, k[2]))
        ELSE IF k = Backspace THEN cont(Runner_remove_last_char(self))
        ELSE IF k = Right THEN cont({next_suggestion(self.screen)})
        ELSE IF k = Left THEN cont({previous_suggestion(self.screen)})
        ELSE IF k = Up THEN cont({previous_command(self.screen)})
        ELSE IF k = Down THEN cont({next_command(self.screen)})
        ELSE cont({self.screen})

----------------------------------------------------------------------------
(* Runner::run and main (main.rs:14-21, 77-101) as a state machine. *)

\* The printable characters typed in the model.
TypedChars == {"a", "b"}

\* The catalogs the controller is run with.
RunnerCatalogs == {<<cmd_ls, cmd_cat, cmd_du>>, <<cmd_cat>>}

Self == [commands |-> commands, kwd2cmd |-> kwd2cmd, screen |-> screen]

\* Result<Option<String>> of run(), or the panic of unreachable!()
Ok(v) == <<"Ok", v>>
Err == <<"Err">>
Panic == <<"Panic">>

suggestVars == <<sg_input, sg_validated, suggestion>>
templateVars == <<tp_cmd, tp_values, placeholders, interpolated>>
catalogVars == <<commands, kwd2cmd>>

Init ==
    /\ commands \in RunnerCatalogs
    /\ kwd2cmd \in new_rc(commands)
    /\ screen = Screen_new
    /\ pc = "start"
    /\ key = None
    /\ outcome = None
    /\ result = None
    /\ cleaned = FALSE
    /\ stdout = <<>>
    /\ sg_input = <<>>
    /\ sg_validated = {}
    /\ suggestion = None
    /\ script = None
    /\ tp_cmd = <<>>
    /\ tp_values = <<>>
    /\ placeholders = None
    /\ interpolated = None

\* run() returns e (through `?`) or panics
Return(r) ==
    /\ result' = Some(r)
    /\ pc' = "exit"

\* main.rs:78-81: the first refresh_screen()? and flush()? succeed
FirstDrawOk ==
    /\ pc = "start"
    /\ pc' = "read"
    /\ UNCHANGED <<catalogVars, screen, key, outcome, result, cleaned, stdout, suggestVars, templateVars, script>>

\* main.rs:78-81: one of them fails
FirstDrawFail ==
    /\ pc = "start"
    /\ Return(Err)
    /\ UNCHANGED <<catalogVars, screen, key, outcome, cleaned, stdout, suggestVars, templateVars, script>>

\* (variant of Consume: after Continue the next key is taken without a redraw)
Consume_no_redraw(k) ==
    /\ pc = "read"
    /\ IF script = None
       THEN script' = script
       ELSE /\ script[1] # <<>>
            /\ k = Head(script[1])
            /\ script' = Some(Tail(script[1]))
    /\ \E r \in process_key(Self, k) :
          /\ script = None => Len(r[2].current_line) <= MaxLine
          /\ script = None => Len(r[2].validated_keywords) <= MaxValidated
          /\ outcome' = Some(r[1])
          /\ screen' = r[2]
          /\ pc' = IF r[1] = Continue THEN "read" ELSE "cleanup"
    /\ key' = Some(k)
    /\ UNCHANGED <<catalogVars, result, cleaned, stdout, suggestVars, templateVars>>

\* main.rs:82-83: stdin.keys() yields Ok(k), process_key(k) is called.  When
\* the keys are given (script), k is the next of them; otherwise any key may
\* come, within the bounds of the model.
Consume(k) ==
    /\ pc = "read"
    /\ IF script = None
       THEN script' = script
       ELSE /\ script[1] # <<>>
            /\ k = Head(script[1])
            /\ script' = Some(Tail(script[1]))
    /\ \E r \in process_key(Self, k) :
          /\ script = None => Len(r[2].current_line) <= MaxLine
          /\ script = None => Len(r[2].validated_keywords) <= MaxValidated
          /\ outcome' = Some(r[1])
          /\ screen' = r[2]
          /\ pc' = IF r[1] = Continue THEN "refresh" ELSE "cleanup"
    /\ key' = Some(k)
    /\ UNCHANGED <<catalogVars, result, cleaned, stdout, suggestVars, templateVars>>

PressQ == Consume(Char("q"))
PressEnter == Consume(Char("\n"))
PressTab == Consume(Char("\t"))
PressSpace == Consume(Char(" "))
PressChar == \E c \in TypedChars : Consume(Char(c))
PressBackspace == Consume(Backspace)
PressRight == Consume(Right)
PressLeft == Consume(Left)
PressUp == Consume(Up)
PressDown == Consume(Down)
PressOther == Consume(Esc)

\* main.rs:83: stdin.keys() yields Err(e), `c?` returns it
ReadFail ==
    /\ pc = "read"
    /\ Return(Err)
    /\ UNCHANGED <<catalogVars, screen, key, outcome, cleaned, stdout, suggestVars, templateVars, script>>

\* main.rs:82,100: stdin.keys() ends, the loop falls through to unreachable!()
EndOfInput ==
    /\ pc = "read"
    /\ script # None => script[1] = <<>>
    /\ Return(Panic)
    /\ UNCHANGED <<catalogVars, screen, key, outcome, cleaned, stdout, suggestVars, templateVars, script>>

\* main.rs:94-96: refresh_screen()? succeeds, the loop takes the next key
RefreshOk ==
    /\ pc = "refresh"
    /\ pc' = "read"
    /\ key' = None
    /\ outcome' = None
    /\ UNCHANGED <<catalogVars, screen, result, cleaned, stdout, suggestVars, templateVars, script>>

\* main.rs:95: refresh_screen()? fails
RefreshFail ==
    /\ pc = "refresh"
    /\ Return(Err)
    /\ UNCHANGED <<catalogVars, screen, key, outcome, cleaned, stdout, suggestVars, templateVars, script>>

\* main.rs:84-92: cleanup()? succeeds, run returns Ok(Some(cmd)) or Ok(None)
CleanupOk ==
    /\ pc = "cleanup"
    /\ cleaned' = TRUE
    /\ Return(Ok(IF outcome = Some(Cancel) THEN None ELSE Some(outcome[1][2])))
    /\ UNCHANGED <<catalogVars, screen, key, outcome, stdout, suggestVars, templateVars, script>>

\* main.rs:85,90: cleanup()? fails
CleanupFail ==
    /\ pc = "cleanup"
    /\ cleaned' = TRUE
    /\ Return(Err)
    /\ UNCHANGED <<catalogVars, screen, key, outcome, stdout, suggestVars, templateVars, script>>

\* (variant of Main: nothing is printed when run returns Ok(None))
Main_silent_cancel ==
    /\ pc = "exit"
    /\ pc' = "done"
    /\ stdout' = IF result[1][1] = "Ok" /\ result[1][2] # None
                 THEN Append(stdout, result[1][2][1])
                 ELSE stdout
    /\ UNCHANGED <<catalogVars, screen, key, outcome, result, cleaned, suggestVars, templateVars, script>>

\* main.rs:16-20: main prints the command, an empty line, or (on stderr) the
\* error; a panic unwinds through main without printing on stdout
Main ==
    /\ pc = "exit"
    /\ pc' = "done"
    /\ stdout' = IF result[1][1] = "Ok"
                 THEN IF result[1][2] = None THEN Append(stdout, <<>>)
                      ELSE Append(stdout, result[1][2][1])
                 ELSE stdout
    /\ UNCHANGED <<catalogVars, screen, key, outcome, result, cleaned, suggestVars, templateVars, script>>

Next ==
    \/ FirstDrawOk
    \/ FirstDrawFail
    \/ PressQ
    \/ PressEnter
    \/ PressTab
    \/ PressSpace
    \/ PressChar
    \/ PressBackspace
    \/ PressRight
    \/ PressLeft
    \/ PressUp
    \/ PressDown
    \/ PressOther
    \/ ReadFail
    \/ EndOfInput
    \/ RefreshOk
    \/ RefreshFail
    \/ CleanupOk
    \/ CleanupFail
    \/ Main

Spec == Init /\ [][Next]_vars

----------------------------------------------------------------------------
(* Suggestion::from_input as a pure function: the arguments are drawn in   *)
(* the initial state and one call is made.                                 *)

\* The strings validated_keywords is drawn from; <<"b", "a">> is no keyword.
ValidatedPool == {<<"a">>, <<"a", "b">>, <<"b">>, <<"b", "a">>}

InitSuggest ==
    /\ commands \in SeqsUpTo(CommandPool, MaxCmds)
    /\ kwd2cmd \in new_rc(commands)
    /\ sg_input \in SeqsUpTo(TypedChars, MaxInput)
    /\ sg_validated \in SUBSET ValidatedPool
    /\ suggestion = None
    /\ screen = Screen_new
    /\ pc = "suggest"
    /\ key = None
    /\ outcome = None
    /\ result = None
    /\ cleaned = FALSE
    /\ stdout = <<>>
    /\ script = None
    /\ tp_cmd = <<>>
    /\ tp_values = <<>>
    /\ placeholders = None
    /\ interpolated = None

CallFromInput ==
    /\ suggestion = None
    /\ suggestion' \in {Some(s) : s \in from_input(commands, kwd2cmd, sg_input, sg_validated)}
    /\ UNCHANGED <<catalogVars, screen, pc, key, outcome, result, cleaned, stdout,
                   sg_input, sg_validated, templateVars, script>>

NextSuggest == CallFromInput

SpecSuggest == InitSuggest /\ [][NextSuggest]_vars

----------------------------------------------------------------------------
(* Properties of the editor state and of the controller, under Spec. *)

\* C1: in every reachable editor state the selected-keyword index is Some
\* exactly when the keyword-suggestion list is non-empty, and the
\* selected-command index is Some exactly when the command list is non-empty.
C1_SelectionIffNonEmpty ==
    /\ screen.selected_auto_complete_index # None <=> screen.auto_complete # <<>>
    /\ screen.selected_command_index # None <=> screen.commands # <<>>

\* A recompute left commands but no keyword (empty input after a Backspace).
C1_Witness ==
    /\ key = Some(Backspace)
    /\ screen.auto_complete = <<>>
    /\ screen.selected_auto_complete_index = None
    /\ screen.commands # <<>>
    /\ screen.selected_command_index = Some(0)

\* The outcome the key table gives for key k on the editor state s.
ExpectedOutcome(k, s) ==
    IF k = Char("q") THEN Cancel
    ELSE IF k = Char("\n") /\ s.selected_command_index # None
         THEN Success(s.commands[s.selected_command_index[1] + 1].cmd)
         ELSE Continue

\* C2: whatever the state, a consumed key yields one outcome: 'q' yields
\* Cancel, Enter yields Success(text of the selected command) when a command
\* is selected and Continue otherwise, every other key yields Continue.
C2_OutcomeByKey ==
    [][(pc = "read" /\ key' # None) =>
          outcome' = Some(ExpectedOutcome(key'[1], screen))]_vars

\* Enter on the second command of the list, reached with Down.
C2_Witness ==
    /\ key = Some(Char("\n"))
    /\ screen.selected_command_index = Some(1)
    /\ outcome = Some(Success(screen.commands[2].cmd))
    /\ screen.commands[2].cmd # screen.commands[1].cmd

\* The keys that change the input buffer or the validated list.
ChangingKeys ==
    {Char(c) : c \in TypedChars} \cup {Backspace, Char("\t"), Char(" ")}

\* Multiplicity of x in the sequence s.
Count(s, x) == Cardinality({i \in 1..Len(s) : s[i] = x})

\* s and t hold the same elements the same number of times.
SameBag(s, t) ==
    /\ Len(s) = Len(t)
    /\ \A i \in 1..Len(s) : Count(s, s[i]) = Count(t, s[i])

\* C3: after every keystroke that changes the input buffer or the validated
\* list (printable char, Backspace, Tab, Space) the suggestion held by the
\* editor state is suggest(catalog, input buffer, Valid validated keywords).
\* Stated up to the order of the two lists.
C3_SuggestionRecomputed ==
    (pc = "refresh" /\ key # None /\ key[1] \in ChangingKeys) =>
        \E s \in from_input(commands, kwd2cmd, input(screen),
                            valid_keyword_set(screen.validated_keywords)) :
            /\ Range(s.keywords) = Range(screen.auto_complete)
            /\ Len(s.keywords) = Len(screen.auto_complete)
            /\ SameBag(s.commands, screen.commands)

\* C10: Space takes the whole input buffer s (the buffer becomes empty) and
\* appends exactly one token, Valid(s) if s is a key of the index and
\* Invalid(s) otherwise; and in every reachable state every Valid entry of the
\* validated list is a key of the index.
C10_SpaceCommits ==
    /\ [](\A i \in 1..Len(screen.validated_keywords) :
            screen.validated_keywords[i][1] = "Valid" =>
                \E j \in 1..Len(kwd2cmd) :
                    kwd2cmd[j].kw = screen.validated_keywords[i][2])
    /\ [][(pc = "read" /\ key' = Some(Char(" "))) =>
            /\ screen'.current_line = <<>>
            /\ screen'.validated_keywords =
                  Append(screen.validated_keywords,
                         IF \E j \in 1..Len(kwd2cmd) : kwd2cmd[j].kw = screen.current_line
                         THEN Valid(screen.current_line)
                         ELSE Invalid(screen.current_line))]_vars

\* Space after typing something that is no keyword.
C10_Witness ==
    /\ key = Some(Char(" "))
    /\ screen.current_line = <<>>
    /\ screen.validated_keywords = <<Invalid(<<"b", "a">>)>>

----------------------------------------------------------------------------
(* Properties of Suggestion::from_input and of the index, under SpecSuggest. *)

NoDuplicates(s) == \A i, j \in 1..Len(s) : s[i] = s[j] => i = j

\* Non-decreasing canonical command order.
Sorted(cmds) ==
    \A i, j \in 1..Len(cmds) : i < j => str_le(cmds[i].cmd, cmds[j].cmd)

\* The keywords of the commands of the list L.
CatalogKeywords(L) == UNION {Range(L[i].keywords) : i \in 1..Len(L)}

\* C4: suggest(C, input, V).commands contains no duplicates.
C4_NoDuplicateCommands ==
    suggestion # None => NoDuplicates(suggestion[1].commands)

\* C5: suggest(C, input, V).commands is in non-decreasing canonical command
\* order (lexicographic order of the template text).
C5_CommandsSorted ==
    suggestion # None => Sorted(suggestion[1].commands)

\* The index yields cmd_ls (by "a", and again by "ab") before or around
\* cmd_cat; the suggestion has cmd_cat first.
C5_Witness ==
    /\ commands = <<cmd_ls, cmd_cat>>
    /\ sg_input = <<"a">>
    /\ suggestion # None
    /\ suggestion[1].commands = <<cmd_cat, cmd_ls, cmd_ls>>

\* C6 as claimed: suggest(C, "", {}) has no keyword and its command list is
\* L in canonical order (a sorted rearrangement of L).
C6_EmptyInputIsSortedList ==
    (suggestion # None /\ sg_input = <<>> /\ sg_validated = {}) =>
        /\ suggestion[1].keywords = <<>>
        /\ Sorted(suggestion[1].commands)
        /\ SameBag(suggestion[1].commands, commands)

\* C6 as amended: suggest(C, "", {}) has no keyword and its command list holds
\* the distinct commands of L, each once, in canonical order.
C6_EmptyInputIsSortedSet ==
    (suggestion # None /\ sg_input = <<>> /\ sg_validated = {}) =>
        /\ suggestion[1].keywords = <<>>
        /\ Sorted(suggestion[1].commands)
        /\ NoDuplicates(suggestion[1].commands)
        /\ Range(suggestion[1].commands) = Range(commands)

C6_Witness ==
    /\ sg_input = <<>>
    /\ sg_validated = {}
    /\ commands = <<cmd_ls, cmd_cat>>
    /\ suggestion = Some(Suggestion(<<>>, <<cmd_cat, cmd_ls>>))

\* C7: the set of commands of suggest(C, input, V) is: for an empty input,
\* the commands of C that have every element of V among their keywords; for
\* a non-empty input, those of them that also have a keyword starting with
\* input that is not in V.
C7_CommandSet ==
    suggestion # None =>
        Range(suggestion[1].commands) =
            {c \in Range(commands) :
                /\ \A v \in sg_validated : v \in Range(c.keywords)
                /\ sg_input # <<>> =>
                      \E k \in Range(c.keywords) :
                          starts_with(k, sg_input) /\ k \notin sg_validated}

\* Two validated keywords: cmd_ls has only one of them and is left out.
C7_Witness ==
    /\ commands = <<cmd_ls, cmd_ls_l>>
    /\ sg_validated = {<<"a">>, <<"b">>}
    /\ sg_input = <<"a">>
    /\ suggestion = Some(Suggestion(<< <<"a", "b">> >>, <<cmd_ls_l>>))

\* C8: suggest(C, input, V).keywords is empty for an empty input, and
\* otherwise holds, each once, the catalog keywords that start with input and
\* are not in V.
C8_KeywordList ==
    suggestion # None =>
        IF sg_input = <<>>
        THEN suggestion[1].keywords = <<>>
        ELSE /\ NoDuplicates(suggestion[1].keywords)
             /\ Range(suggestion[1].keywords) =
                   {k \in CatalogKeywords(commands) :
                       starts_with(k, sg_input) /\ k \notin sg_validated}

\* "a" is validated and starts with the input, and is not suggested.
C8_Witness ==
    /\ commands = <<cmd_ls, cmd_cat>>
    /\ sg_validated = {<<"a">>}
    /\ sg_input = <<"a">>
    /\ suggestion # None
    /\ suggestion[1].keywords = << <<"a", "b">> >>

\* kwd2cmd as a function from its keys.
AsMap(map) ==
    [k \in {map[j].kw : j \in 1..Len(map)} |->
        (CHOOSE e \in Range(map) : e.kw = k).cmds]

\* C9: the index is exact: index[k] contains c for every command c of L and
\* every keyword k of c; every c in index[k] is a command of L with k among
\* its keywords; a key occurs once, and inserting the pairs again (a keyword
\* repeated) changes nothing.
C9_IndexExact ==
    /\ \A i \in 1..Len(commands) : \A k \in Range(commands[i].keywords) :
          \E j \in 1..Len(kwd2cmd) :
              kwd2cmd[j].kw = k /\ commands[i] \in kwd2cmd[j].cmds
    /\ \A j \in 1..Len(kwd2cmd) : \A c \in kwd2cmd[j].cmds :
          c \in Range(commands) /\ kwd2cmd[j].kw \in Range(c.keywords)
    /\ \A i, j \in 1..Len(kwd2cmd) : kwd2cmd[i].kw = kwd2cmd[j].kw => i = j
    /\ index_commands(AsMap(kwd2cmd), commands) = AsMap(kwd2cmd)

\* Keyword "b" is shared by the two commands and repeated inside cmd_du.
C9_Witness ==
    /\ commands = <<cmd_cat, cmd_du>>
    /\ \E j \in 1..Len(kwd2cmd) :
          kwd2cmd[j].kw = <<"b">> /\ kwd2cmd[j].cmds = {cmd_cat, cmd_du}

----------------------------------------------------------------------------
(* Further properties of the controller, under Spec. *)

\* The keys after which the controller recomputes the suggestion.
RecomputeKeys == {Char(c) : c \in TypedChars} \cup {Backspace, Char("\t")}

\* The strings the Valid entries of the validated list hold.
ValidStrings(validated) ==
    {t[2] : t \in {u \in Range(validated) : u[1] = "Valid"}}

\* C11: Invalid validated tokens never filter: the suggestion a recompute
\* keystroke leaves is one computed from the input buffer and the set of Valid
\* validated keywords alone (same keyword list, same command set), whatever
\* Invalid tokens the validated list holds.
C11_InvalidNeverFilters ==
    (pc = "refresh" /\ key # None /\ key[1] \in RecomputeKeys) =>
        \E s \in eligible(commands, kwd2cmd, screen.current_line,
                          ValidStrings(screen.validated_keywords)) :
            /\ s.keywords = screen.auto_complete
            /\ Range(s.commands) = Range(screen.commands)

\* A character typed after an Invalid token: commands are still suggested.
C11_Witness ==
    /\ pc = "refresh"
    /\ key = Some(Char("a"))
    /\ screen.validated_keywords = <<Invalid(<<"b", "a">>)>>
    /\ screen.current_line = <<"a">>
    /\ screen.commands # <<>>

----------------------------------------------------------------------------
(* The end-to-end scenario: the keys are given, the catalog is the one of   *)
(* the tests (suggestion.rs:83-97) or the one of run_runner (main.rs:29-44). *)

nix_env_cmd == <<"n", "i", "x", "-", "e", "n", "v", " ", "-", "q", " ", "'", ".", "*", "{", "}", ".", "*", "'">>
nix_store_cmd == <<"d", "u", " ", "-", "s", "h", " ", "/", "n", "i", "x", "/", "s", "t", "o", "r", "e">>
shutdown_cmd == <<"s", "u", "d", "o", " ", "s", "h", "u", "t", "d", "o", "w", "n", " ", "-", "h", " ", "n", "o", "w">>

kw_nix == <<"n", "i", "x">>
kw_search == <<"s", "e", "a", "r", "c", "h">>
kw_store == <<"s", "t", "o", "r", "e">>
kw_shutdown == <<"s", "h", "u", "t", "d", "o", "w", "n">>
kw_package == <<"p", "a", "c", "k", "a", "g", "e">>
kw_size == <<"s", "i", "z", "e">>
kw_hardware == <<"h", "a", "r", "d", "w", "a", "r", "e">>

\* suggestion.rs:83-97 (TestData::new)
cmd_nix_env == Command(nix_env_cmd, "Search a Nix package by name", <<kw_nix, kw_search>>)
cmd_nix_store == Command(nix_store_cmd, "Show the size of the Nix store", <<kw_nix, kw_store>>)
cmd_shutdown == Command(shutdown_cmd, "Shut the system down", <<kw_shutdown>>)

TestCatalog == <<cmd_nix_env, cmd_nix_store, cmd_shutdown>>

\* main.rs:29-44 (run_runner)
RunnerCatalog ==
    <<Command(nix_env_cmd, "Search a Nix package by name", <<kw_nix, kw_search, kw_package>>),
      Command(nix_store_cmd, "Show the size of the Nix store", <<kw_nix, kw_store, kw_size>>),
      Command(shutdown_cmd, "Shut the system down", <<kw_hardware, kw_shutdown>>)>>

\* n, i, x, SPACE, s, t, ENTER
ScenarioKeys ==
    <<Char("n"), Char("i"), Char("x"), Char(" "), Char("s"), Char("t"), Char("\n")>>

InitScenario ==
    /\ commands \in {TestCatalog, RunnerCatalog}
    /\ kwd2cmd \in new_rc(commands)
    /\ script = Some(ScenarioKeys)
    /\ screen = Screen_new
    /\ pc = "start"
    /\ key = None
    /\ outcome = None
    /\ result = None
    /\ cleaned = FALSE
    /\ stdout = <<>>
    /\ sg_input = <<>>
    /\ sg_validated = {}
    /\ suggestion = None
    /\ tp_cmd = <<>>
    /\ tp_values = <<>>
    /\ placeholders = None
    /\ interpolated = None

\* stdin delivers the next given key
ScriptedKey ==
    /\ script # None
    /\ \E k \in Range(script[1]) : Consume(k)

NextScenario ==
    \/ FirstDrawOk
    \/ FirstDrawFail
    \/ ScriptedKey
    \/ ReadFail
    \/ RefreshOk
    \/ RefreshFail
    \/ CleanupOk
    \/ CleanupFail
    \/ Main

SpecScenario == InitScenario /\ [][NextScenario]_vars

\* C12: over the three-command catalog the keys n, i, x, Space, s, t, Enter
\* yield Continue for the first six keys and Success("du -sh /nix/store") on
\* Enter, nix_store being the first and selected command at that point.
C12_Scenario ==
    outcome # None =>
        IF script[1] # <<>>
        THEN outcome = Some(Continue)
        ELSE /\ key = Some(Char("\n"))
             /\ outcome = Some(Success(nix_store_cmd))
             /\ screen.commands[1].cmd = nix_store_cmd
             /\ screen.selected_command_index = Some(0)
             /\ screen.validated_keywords = <<Valid(kw_nix)>>
             /\ screen.current_line = <<"s", "t">>

\* The run ended after the seven keys and main printed the command.
C12_Witness ==
    /\ pc = "done"
    /\ commands = TestCatalog
    /\ script = Some(<<>>)
    /\ result = Some(Ok(Some(nix_store_cmd)))
    /\ stdout = <<nix_store_cmd>>

----------------------------------------------------------------------------
\* C13: nothing is on standard output while the session runs; once the
\* process has ended, standard output holds exactly one line with the chosen
\* command's text if the session ended with Success, exactly one empty line if
\* it ended with Cancel, and nothing if it ended with an error.
C13_StdoutContract ==
    /\ pc # "done" => stdout = <<>>
    /\ pc = "done" =>
          /\ (outcome # None /\ outcome[1][1] = "Success" /\ result = Some(Ok(Some(outcome[1][2]))))
                => /\ stdout = <<outcome[1][2]>>
                   /\ \E c \in Range(commands) : c.cmd = outcome[1][2]
          /\ (outcome = Some(Cancel) /\ result = Some(Ok(None)))
                => stdout = << <<>> >>
          /\ result = Some(Err) => stdout = <<>>
          /\ result[1][1] = "Ok" =>
                /\ outcome # None
                /\ result[1][2] = (IF outcome = Some(Cancel) THEN None
                                   ELSE Some(outcome[1][2]))
                /\ outcome[1][1] \in {"Success", "Cancel"}

\* A session ended with Cancel after a key was typed and one empty line was
\* printed.
C13_Witness ==
    /\ pc = "done"
    /\ outcome = Some(Cancel)
    /\ screen.current_line # <<>>
    /\ stdout = << <<>> >>

----------------------------------------------------------------------------
(* Command templates (command.rs): Placeholders::parse and interpolate. *)

MaxTemplate == 4
MaxValues == 2

TemplateChars == {"a", "{", "}"}
ValuePool == {<<"v">>, <<"w">>}

\* &s[a..b], offsets counted from 0
slice(s, a, b) == SubSeq(s, a + 1, b)

\* The offset of the first ch in s at or after offset p; Len(s) if there is none.
find_char(s, p, ch) ==
    IF \E q \in p..(Len(s) - 1) : s[q + 1] = ch
    THEN CHOOSE q \in p..(Len(s) - 1) :
            /\ s[q + 1] = ch
            /\ \A r \in p..(q - 1) : s[r + 1] # ch
    ELSE Len(s)

\* (variant of find_at: the first group also stops at a closing brace)
find_at_stop_at_close(cmd, start) ==
    LET q0 == find_char(cmd, start, "{")
        q1 == find_char(cmd, start, "}")
        q == Min(q0, q1)
        r == find_char(cmd, q + 1, "}")
    IN  IF q < Len(cmd) /\ cmd[q + 1] = "{" /\ r < Len(cmd)
        THEN [s |-> start, e |-> r + 1, g1 |-> slice(cmd, start, q),
              g3 |-> Some(slice(cmd, q + 1, r))]
        ELSE [s |-> start, e |-> q, g1 |-> slice(cmd, start, q), g3 |-> None]

\* command.rs:44: the match of ([^{]*)(\{([^}]*?)\})? searched from offset
\* start.  The pattern matches the empty string, so the leftmost match begins
\* at start; group 1 is the longest run without an opening brace; the optional
\* group takes part when a brace opens there and a closing brace follows, the
\* name (group 3) running up to the first closing brace.
find_at(cmd, start) ==
    LET q == find_char(cmd, start, "{")
        r == find_char(cmd, q + 1, "}")
    IN  IF q < Len(cmd) /\ r < Len(cmd)
        THEN [s |-> start, e |-> r + 1, g1 |-> slice(cmd, start, q),
              g3 |-> Some(slice(cmd, q + 1, r))]
        ELSE [s |-> start, e |-> q, g1 |-> slice(cmd, start, q), g3 |-> None]

\* command.rs:51: Regex::captures_iter, the successive non-overlapping matches.
\* After an empty match the search resumes one character further; an empty
\* match that begins where the previous match ended is passed over.
RECURSIVE captures_iter(_, _, _)
captures_iter(cmd, last_end, last_match) ==
    IF last_end > Len(cmd)
    THEN <<>>
    ELSE LET m == find_at(cmd, last_end)
         IN  IF m.s = m.e
             THEN IF Some(m.e) = last_match
                  THEN captures_iter(cmd, m.e + 1, last_match)
                  ELSE <<m>> \o captures_iter(cmd, m.e + 1, Some(m.e))
             ELSE <<m>> \o captures_iter(cmd, m.e, Some(m.e))

\* struct Placeholders { original, cmd_chunks, names }
Placeholders(original, cmd_chunks, names) ==
    [original |-> original, cmd_chunks |-> cmd_chunks, names |-> names]

\* command.rs:40-61
parse(cmd) ==
    LET caps == captures_iter(cmd, 0, None)
        named == SelectSeq(caps, LAMBDA m : m.g3 # None)
    IN  Ok(Placeholders(cmd,
                        [i \in 1..Len(caps) |-> caps[i].g1],
                        [i \in 1..Len(named) |-> named[i].g3[1]]))

\* (variant of interleave: stops when the second sequence has nothing left
\* to give for a gap, and appends nothing of it after the first one ends)
RECURSIVE interleave_bounded(_, _)
interleave_bounded(a, b) ==
    IF a = <<>> THEN <<>>
    ELSE IF b = <<>> THEN a
    ELSE <<Head(a), Head(b)>> \o interleave_bounded(Tail(a), Tail(b))

\* itertools::Itertools::interleave: elements of a and b in turn, starting with
\* a; when one is exhausted the rest of the other follows.
RECURSIVE interleave(_, _)
interleave(a, b) ==
    IF a = <<>> THEN b
    ELSE <<Head(a)>> \o interleave(b, Tail(a))

\* itertools::Itertools::join("")
RECURSIVE join(_)
join(strs) ==
    IF strs = <<>> THEN <<>> ELSE Head(strs) \o join(Tail(strs))

\* command.rs:63-65
interpolate(self, values) == join(interleave(self.cmd_chunks, values))

InitTemplate ==
    /\ tp_cmd \in SeqsUpTo(TemplateChars, MaxTemplate)
    /\ tp_values \in SeqsUpTo(ValuePool, MaxValues)
    /\ placeholders = None
    /\ interpolated = None
    /\ commands = <<>>
    /\ kwd2cmd = EmptyMap
    /\ screen = Screen_new
    /\ pc = "template"
    /\ key = None
    /\ outcome = None
    /\ result = None
    /\ cleaned = FALSE
    /\ stdout = <<>>
    /\ sg_input = <<>>
    /\ sg_validated = {}
    /\ suggestion = None
    /\ script = None

\* let ph = Placeholders::parse(cmd)
CallParse ==
    /\ placeholders = None
    /\ placeholders' = Some(parse(tp_cmd))
    /\ UNCHANGED <<catalogVars, screen, pc, key, outcome, result, cleaned, stdout,
                   suggestVars, tp_cmd, tp_values, interpolated, script>>

\* ph.unwrap().interpolate(values)
CallInterpolate ==
    /\ placeholders # None
    /\ placeholders[1][1] = "Ok"
    /\ interpolated = None
    /\ interpolated' = Some(interpolate(placeholders[1][2], tp_values))
    /\ UNCHANGED <<catalogVars, screen, pc, key, outcome, result, cleaned, stdout,
                   suggestVars, tp_cmd, tp_values, placeholders, script>>

NextTemplate ==
    \/ CallParse
    \/ CallInterpolate

SpecTemplate == InitTemplate /\ [][NextTemplate]_vars

\* s holds an opening brace with a closing brace somewhere after it
has_placeholder(s) ==
    \E i \in 1..Len(s) : \E j \in (i + 1)..Len(s) : s[i] = "{" /\ s[j] = "}"

\* C14: for every string s, parse(s) succeeds; if s holds at least one
\* complete placeholder then len(chunks) = len(names) + 1, otherwise (an
\* opening brace without a closing one included) chunks = [s] and names = [].
C14_ParseInvariant ==
    placeholders # None =>
        /\ placeholders[1][1] = "Ok"
        /\ placeholders[1][2].original = tp_cmd
        /\ IF has_placeholder(tp_cmd)
           THEN Len(placeholders[1][2].cmd_chunks) = Len(placeholders[1][2].names) + 1
           ELSE /\ placeholders[1][2].cmd_chunks = <<tp_cmd>>
                /\ placeholders[1][2].names = <<>>

\* The text the alternation gives: each chunk followed, at a placeholder
\* position i, by values[i] when supplied and by nothing otherwise.
RECURSIVE alternation(_, _, _, _)
alternation(chunks, names, values, i) ==
    IF i > Len(chunks) THEN <<>>
    ELSE chunks[i]
         \o (IF i <= Len(names) /\ i <= Len(values) THEN values[i] ELSE <<>>)
         \o alternation(chunks, names, values, i + 1)

\* C15: for every parsed template and every value list, interpolate(values)
\* is chunk[0] v[0] chunk[1] v[1] ... in strict alternation, a placeholder
\* position taking values[i] if supplied and the empty string otherwise, and
\* values beyond the number of placeholders do not appear in the result.
C15_InterpolateAlternation ==
    interpolated # None =>
        interpolated[1] = alternation(placeholders[1][2].cmd_chunks,
                                      placeholders[1][2].names, tp_values, 1)

\* C16 as stated: for every string s, interpolating parse(s) with the empty
\* value list yields s.
C16_RoundTripAll ==
    (interpolated # None /\ tp_values = <<>>) => interpolated[1] = tp_cmd

\* C16: for every string s that holds no opening brace, interpolating parse(s)
\* with the empty value list yields s.
C16_RoundTripPlain ==
    (interpolated # None /\ tp_values = <<>> /\ ~contains(tp_cmd, "{")) =>
        interpolated[1] = tp_cmd

\* A string with a closing brace but no opening one went through parse and
\* interpolate.
C16_Witness ==
    /\ tp_cmd = <<"a", "}", "a">>
    /\ tp_values = <<>>
    /\ interpolated = Some(<<"a", "}", "a">>)

----------------------------------------------------------------------------
(* Further properties of the session, under Spec. *)

\* C17: when a terminal read or a draw/flush fails during the session, the
\* terminal cleanup (Screen::cleanup) is attempted before the error leaves
\* run(), and the error is then the outcome of the session.
C17_CleanupBeforeError ==
    result = Some(Err) => cleaned

\* C18: the validated list grows by exactly one entry on Space and on Tab
\* when a keyword suggestion is selected; it loses exactly its last entry on
\* Backspace when the input buffer is empty and the list is not; no other key,
\* no Backspace with a non-empty buffer and no other step changes it.
C18_ValidatedListChanges ==
    [][LET old == screen.validated_keywords
           new == screen'.validated_keywords
       IN  IF pc = "read" /\ key' # None
           THEN IF \/ key'[1] = Char(" ")
                   \/ (key'[1] = Char("\t") /\ screen.selected_auto_complete_index # None)
                THEN /\ Len(new) = Len(old) + 1
                     /\ SubSeq(new, 1, Len(old)) = old
                ELSE IF key'[1] = Backspace /\ screen.current_line = <<>> /\ old # <<>>
                THEN /\ Len(new) = Len(old) - 1
                     /\ new = SubSeq(old, 1, Len(old) - 1)
                ELSE new = old
           ELSE new = old]_vars

\* Tab committed the selected suggestion "ab" while "a" was in the buffer.
C18_Witness ==
    /\ pc = "refresh"
    /\ key = Some(Char("\t"))
    /\ screen.validated_keywords = <<Valid(<<"a", "b">>)>>
    /\ screen.current_line = <<>>

\* What remove_last_char is to leave of the editor state e.
RemoveLastCharOf(e) ==
    IF e.current_line # <<>>
    THEN [e EXCEPT !.current_line = SubSeq(@, 1, Len(@) - 1)]
    ELSE IF e.validated_keywords # <<>>
    THEN [e EXCEPT !.validated_keywords = SubSeq(@, 1, Len(@) - 1)]
    ELSE e

\* C19: remove_last_char drops exactly the last character of a non-empty
\* input buffer and leaves the validated list; with an empty buffer it removes
\* the last validated keyword and leaves the buffer empty; with both empty it
\* changes nothing; it never changes the suggestion lists or the selection
\* indices.  So for every editor state the session reaches, and so does the
\* Backspace key change the buffer and the validated list.
C19_RemoveLastChar ==
    /\ [](remove_last_char(screen) = RemoveLastCharOf(screen))
    /\ [][(pc = "read" /\ key' = Some(Backspace)) =>
            /\ screen'.current_line = RemoveLastCharOf(screen).current_line
            /\ screen'.validated_keywords = RemoveLastCharOf(screen).validated_keywords]_vars

\* Backspace took the second character of the buffer and left the validated
\* keyword in place.
C19_Witness ==
    /\ pc = "refresh"
    /\ key = Some(Backspace)
    /\ screen.current_line = <<"b">>
    /\ screen.validated_keywords = <<Valid(<<"a">>)>>

\* The index i moved by d (+1 or -1) around a list of n entries.
Rotate(i, d, n) == (i + d + n) % n

\* The editor state an arrow key is to leave of e.
ArrowOf(k, e) ==
    IF k \in {Right, Left}
    THEN IF e.auto_complete = <<>> THEN e
         ELSE [e EXCEPT !.selected_auto_complete_index =
                  Some(Rotate(@[1], IF k = Right THEN 1 ELSE -1, Len(e.auto_complete)))]
    ELSE IF e.commands = <<>> THEN e
         ELSE [e EXCEPT !.selected_command_index =
                  Some(Rotate(@[1], IF k = Down THEN 1 ELSE -1, Len(e.commands)))]

\* C20: Right/Left change nothing but the selected-keyword index and Down/Up
\* nothing but the selected-command index; the index moves by +1 (Right, Down)
\* or -1 (Left, Up) modulo the list length, wrapping around; with an empty list
\* the key changes nothing; and next followed by previous (and previous
\* followed by next) gives back the editor state.
C20_ArrowsSelectionOnly ==
    /\ [](/\ previous_suggestion(next_suggestion(screen)) = screen
          /\ next_suggestion(previous_suggestion(screen)) = screen
          /\ previous_command(next_command(screen)) = screen
          /\ next_command(previous_command(screen)) = screen)
    /\ [][(pc = "read" /\ key' # None /\ key'[1] \in {Right, Left, Up, Down}) =>
            /\ screen' = ArrowOf(key'[1], screen)
            /\ outcome' = Some(Continue)]_vars

\* Up on the first of three commands selected the last one.
C20_Witness ==
    /\ pc = "refresh"
    /\ key = Some(Up)
    /\ Len(screen.commands) = 3
    /\ screen.selected_command_index = Some(2)

\* C21: on Tab with a selected keyword suggestion, the keyword at the selected
\* index of the current keyword list is appended as Valid and the input buffer
\* is cleared; the recomputed suggestion then has no keyword and, as commands,
\* exactly the catalog commands that hold every Valid validated keyword, each
\* once.  On Tab without a selection the validated list and the input buffer
\* are unchanged.
C21_TabCompletes ==
    [][(pc = "read" /\ key' = Some(Char("\t"))) =>
          IF screen.selected_auto_complete_index # None
          THEN /\ screen.selected_auto_complete_index[1] < Len(screen.auto_complete)
               /\ screen'.validated_keywords =
                     Append(screen.validated_keywords,
                            Valid(screen.auto_complete[screen.selected_auto_complete_index[1] + 1]))
               /\ screen'.current_line = <<>>
               /\ screen'.auto_complete = <<>>
               /\ Range(screen'.commands) =
                     {c \in Range(commands) :
                         \A kw \in ValidStrings(screen'.validated_keywords) :
                             contains(c.keywords, kw)}
               /\ NoDuplicates(screen'.commands)
          ELSE /\ screen'.validated_keywords = screen.validated_keywords
               /\ screen'.current_line = screen.current_line]_vars

\* Tab committed the suggestion "a"; ls is the one command holding it.
C21_Witness ==
    /\ pc = "refresh"
    /\ key = Some(Char("\t"))
    /\ screen.validated_keywords = <<Valid(<<"a">>)>>
    /\ screen.current_line = <<>>
    /\ screen.auto_complete = <<>>
    /\ screen.commands = <<cmd_ls>>

\* C22: every recompute (printable character, Backspace, Tab) resets both
\* selections, whatever they were before: the selected-command index is
\* Some(0) if the new command list is non-empty and None otherwise, and
\* likewise the selected-keyword index.
C22_SelectionReset ==
    [][(pc = "read" /\ key' # None /\ key'[1] \in RecomputeKeys) =>
          /\ screen'.selected_command_index =
                (IF screen'.commands = <<>> THEN None ELSE Some(0))
          /\ screen'.selected_auto_complete_index =
                (IF screen'.auto_complete = <<>> THEN None ELSE Some(0))]_vars

\* A recompute left several commands and several keywords, the first of each
\* selected.
C22_Witness ==
    /\ pc = "refresh"
    /\ key = Some(Char("a"))
    /\ Len(screen.commands) >= 2
    /\ Len(screen.auto_complete) >= 2
    /\ screen.selected_command_index = Some(0)
    /\ screen.selected_auto_complete_index = Some(0)

\* C23: keys are processed one at a time: a key is consumed only when the
\* loop waits for one; after a Continue outcome one redraw of the updated
\* state completes before the next key is consumed; after Success or Cancel
\* the cleanup is performed before run() returns, no redraw follows it and no
\* further key is consumed.
C23_OneKeyAtATime ==
    /\ [](pc = "read" => (key = None /\ outcome = None /\ result = None /\ ~cleaned))
    /\ [](result # None /\ result[1][1] = "Ok" => cleaned)
    /\ [][/\ (key' # None /\ key' # key) => pc = "read"
          /\ (pc = "read" /\ key' # None) =>
                pc' = (IF outcome' = Some(Continue) THEN "refresh" ELSE "cleanup")
          /\ pc = "refresh" =>
                /\ screen' = screen
                /\ pc' \in {"read", "exit"}
                /\ pc' = "exit" => result' = Some(Err)
          /\ pc = "cleanup" =>
                /\ cleaned'
                /\ screen' = screen
                /\ key' = key
                /\ pc' = "exit"
          /\ pc \in {"exit", "done"} =>
                /\ pc' = "done"
                /\ UNCHANGED <<screen, key, outcome, result, cleaned>>]_vars

\* Enter on cat: the cleanup was performed and run() is returning the command.
C23_Witness ==
    /\ pc = "exit"
    /\ cleaned
    /\ key = Some(Char("\n"))
    /\ result = Some(Ok(Some(cmd_cat.cmd)))

\* C24: for every key stream, one that ends before 'q' or a successful Enter
\* included, run() ends in exactly one of three ways: Success(text), Cancel,
\* or one propagated error.
C24_ThreeEndings ==
    result # None =>
        \/ /\ result[1][1] = "Ok"
           /\ result[1][2] # None
           /\ outcome = Some(Success(result[1][2][1]))
        \/ /\ result = Some(Ok(None))
           /\ outcome = Some(Cancel)
        \/ result = Some(Err)

\* C25: in every reachable state a selection index Some(i) has i less than
\* the length of its list; so the keyword complete() unwraps is there, the
\* lists next_* and previous_* take the length of are non-empty, and
\* selected_command() is Some whenever the command index is Some.
C25_IndexInRange ==
    /\ screen.selected_auto_complete_index # None =>
          /\ screen.selected_auto_complete_index[1] \in 0..(Len(screen.auto_complete) - 1)
          /\ get(screen.auto_complete, screen.selected_auto_complete_index[1]) # None
    /\ screen.selected_command_index # None =>
          /\ screen.selected_command_index[1] \in 0..(Len(screen.commands) - 1)
          /\ selected_command(screen) # None

\* Both selections were moved to the last entry of their lists.
C25_Witness ==
    /\ Len(screen.auto_complete) = 2
    /\ screen.selected_auto_complete_index = Some(1)
    /\ Len(screen.commands) = 3
    /\ screen.selected_command_index = Some(2)

\* C26: whenever Enter yields Success(t), t is the text of a catalog command
\* whose keyword list holds every Valid keyword of the validated list at that
\* moment.
C26_SuccessConsistent ==
    (outcome # None /\ outcome[1][1] = "Success") =>
        \E c \in Range(commands) :
            /\ c.cmd = outcome[1][2]
            /\ \A kw \in ValidStrings(screen.validated_keywords) :
                  contains(c.keywords, kw)

\* No suggestion is held: both lists are empty and nothing is selected.
NoSuggestion(e) ==
    /\ e.auto_complete = <<>>
    /\ e.commands = <<>>
    /\ e.selected_auto_complete_index = None
    /\ e.selected_command_index = None

\* C27: the initial editor state holds no suggestion (empty keyword and
\* command lists, no selection); it holds none until the first recomputing key
\* (printable character, Backspace, Tab) is processed, and Enter pressed while
\* none is held yields Continue.
C27_NoInitialSuggestion ==
    /\ [](pc = "start" => (NoSuggestion(screen) /\ screen = Screen_new))
    /\ [][(NoSuggestion(screen)
             /\ ~(pc = "read" /\ key' # None /\ key'[1] \in RecomputeKeys)) =>
            /\ NoSuggestion(screen')
            /\ (pc = "read" /\ key' = Some(Char("\n"))) => outcome' = Some(Continue)]_vars

\* Space then Enter in a fresh session: no recompute took place (one leaves
\* every command in the list when the buffer is empty and no keyword is
\* Valid), and Enter continued.
C27_Witness ==
    /\ pc = "refresh"
    /\ key = Some(Char("\n"))
    /\ outcome = Some(Continue)
    /\ screen.validated_keywords = <<Invalid(<<>>)>>
    /\ screen.current_line = <<>>
    /\ NoSuggestion(screen)

\* The characters process_key handles before the printable-character branch.
InterceptedChars == {"q", " ", "\t", "\n"}

\* C28: in every reachable state the input buffer holds none of 'q', space,
\* tab, newline, and every other Key::Char(c) is appended unchanged to the end
\* of the buffer.
C28_BufferChars ==
    /\ [](\A i \in 1..Len(screen.current_line) :
             screen.current_line[i] \notin InterceptedChars)
    /\ [][(pc = "read" /\ key' # None /\ key'[1][1] = "Char") =>
            IF key'[1][2] \in InterceptedChars
            THEN screen'.current_line =
                    (IF \/ key'[1][2] = " "
                        \/ (key'[1][2] = "\t" /\ screen.selected_auto_complete_index # None)
                     THEN <<>>
                     ELSE screen.current_line)
            ELSE screen'.current_line = Append(screen.current_line, key'[1][2])]_vars

\* 'b' was typed after 'a'.
C28_Witness ==
    /\ pc = "refresh"
    /\ key = Some(Char("b"))
    /\ screen.current_line = <<"a", "b">>

====
